---- MODULE Spec2Model ----
(***************************************************************************)
(* Model of src/src/linearSolverLU_batched.cpp: the batched LU solve       *)
(* orchestrator gpuLinearSolverBatched and the batched solve driver        *)
(* linearSolverSLU_batched.  The host thread is a program counter (pc for  *)
(* the orchestrator, dpc for the driver); the device is three FIFO stream  *)
(* queues whose heads execute asynchronously.  Allocators, cuBLAS/CUDA     *)
(* calls and the LU provider are the environment: each fallible call       *)
(* succeeds or fails nondeterministically.                                 *)
(***************************************************************************)
EXTENDS Integers, Sequences, FiniteSets, TLC

\* ---------------------------------------------------------------- bounds
MaxN == 1
MaxBatch == 2
MaxCalls == 1

\* ------------------------------------------------------ program constants
ERR_SUCCESS == 0
numStreams == 3
Align == 32

\* codes the environment's fallible calls report on failure (any non-zero)
AllocFailCodes == {-113}
CudaFailCodes == {7}
\* codes the LU provider's two entry points may return
ProviderCodes == {-3, 0, 1}
\* values a per-matrix status entry may hold
StatusVals == {0, 1, 2}
\* how many of the cudaStreamCreate calls of one call may fail
StreamFailures == {0, 1}

VARIABLES
  pc,           \* position of the host thread in gpuLinearSolverBatched / caller
  calls,        \* number of calls started so far
  N, nrhs, ldda, lddb, batchCount,   \* the arguments / locals of the current call
  k,            \* index of the next allocation (1..9)
  hnd,          \* the pointer variables: *h_X of the caller and the eight locals
  h_X,          \* the local parameter h_X itself: "caller" (address passed in) or "NULL"
  live,         \* buffers currently allocated, <<call, name>>
  liveStreams,  \* streams created and not destroyed
  q,            \* the three stream queues of the current call
  dev,          \* device memory contents (abstract tags, status array)
  host,         \* host memory contents (status mirror, solution buffer)
  resCode, info,
  dpc,          \* position inside linearSolverSLU_batched
  drvRet,       \* value returned by linearSolverSLU_batched
  decompCalls, solveCalls,  \* invocations of the provider in the current call
  provLog,      \* the provider's entry points invoked in this call, with the code each returned
  errSink,      \* codes passed to utils_reportError in the current call
  factStatus,   \* per-matrix status produced by the factorization launched in this call
  failed,       \* fallible steps that reported failure in the current call
  teardownRuns, \* executions of the cleanup block in the current call
  uaf           \* a stream operation ran on a buffer that was already freed

vars == <<pc, calls, N, nrhs, ldda, lddb, batchCount, k, hnd, h_X, live,
          liveStreams, q, dev, host, resCode, info, dpc, drvRet, decompCalls,
          solveCalls, provLog, errSink, factStatus, failed, teardownRuns, uaf>>

\* ---------------------------------------------------------------- helpers
Max(a, b) == IF a > b THEN a ELSE b

RoundUp(x, y) == ((x + y - 1) \div y) * y

Null == <<0, "null">>
Uninit == <<0, "uninit">>

\* the pointer variables, in the order the allocations fill them
AllocOrder == <<"X", "h_info", "d_A", "d_B", "dipiv", "dinfo_array",
                "dA_array", "dB_array", "dipiv_array">>
Handles == {AllocOrder[i] : i \in 1..Len(AllocOrder)}

\* the locals as declared: three pointer arrays are NULL, five are not initialised
DeclaredHandles(x) ==
  [h \in Handles |->
     IF h = "X" THEN x
     ELSE IF h \in {"dA_array", "dB_array", "dipiv_array"} THEN Null
     ELSE Uninit]

EmptyQueues == [s \in 0..(numStreams - 1) |-> <<>>]
FreshDev == [A |-> "uninit", B |-> "uninit", ptrs |-> {}, info |-> <<>>, infoDef |-> FALSE]
FreshHost == [info |-> <<>>, infoDef |-> FALSE, X |-> "uninit"]

Init ==
  /\ pc = "idle" /\ calls = 0
  /\ N = 0 /\ nrhs = 0 /\ ldda = 0 /\ lddb = 0 /\ batchCount = 0
  /\ k = 1
  /\ hnd = DeclaredHandles(Null)
  /\ h_X = "caller"
  /\ live = {} /\ liveStreams = 0
  /\ q = EmptyQueues
  /\ dev = FreshDev /\ host = FreshHost
  /\ resCode = ERR_SUCCESS /\ info = 0
  /\ dpc = "off" /\ drvRet = 0
  /\ decompCalls = 0 /\ solveCalls = 0 /\ provLog = <<>>
  /\ errSink = <<>> /\ factStatus = <<>>
  /\ failed = {} /\ teardownRuns = 0 /\ uaf = FALSE

\* a new call starts in a fresh activation
NewCall ==
  /\ pc = "idle"
  /\ calls < MaxCalls
  /\ calls' = calls + 1
  /\ UNCHANGED <<k, q, resCode, info, drvRet, decompCalls, solveCalls, provLog, errSink,
                 factStatus, failed, teardownRuns, uaf, live, liveStreams>>

\* gpuLinearSolverBatched(n, h_A, h_B, h_X, batchCount): entry and derived locals
Call ==
  \E n \in 0..MaxN, bc \in 0..MaxBatch :
    /\ NewCall
    /\ N' = n /\ nrhs' = 1
    /\ ldda' = RoundUp(n, Align) /\ lddb' = RoundUp(n, Align)
    /\ batchCount' = bc
    /\ UNCHANGED <<hnd, h_X, dev, host, dpc>>
    /\ pc' = "streams"

\* the loop of cudaStreamCreate calls; their status is not looked at
CreateStreams ==
  /\ pc = "streams"
  /\ \E nfail \in StreamFailures :
       /\ liveStreams' = liveStreams + (numStreams - nfail)
       /\ failed' = IF nfail > 0 THEN failed \cup {"stream"} ELSE failed
  /\ pc' = "alloc"
  /\ UNCHANGED <<calls, N, nrhs, ldda, lddb, batchCount, k, hnd, h_X, live, q,
                 dev, host, resCode, info, dpc, drvRet, decompCalls, solveCalls, provLog,
                 errSink, factStatus, teardownRuns, uaf>>

\* a failing step that returned at once instead of jumping to the cleanup block
GotoCleanup_return(code, step) ==
  /\ resCode' = code
  /\ failed' = failed \cup {step}
  /\ pc' = "done"

\* `goto cleanup` with resCode holding the failing step's code
GotoCleanup(code, step) ==
  /\ resCode' = code
  /\ failed' = failed \cup {step}
  /\ pc' = "cleanup"

\* the k-th allocation and the test that follows it
Alloc ==
  /\ pc = "alloc"
  /\ LET h == AllocOrder[k] IN
     \/ /\ hnd' = [hnd EXCEPT ![h] = <<calls, h>>]
        /\ live' = live \cup {<<calls, h>>}
        /\ resCode' = ERR_SUCCESS
        /\ k' = k + 1
        /\ pc' = IF k = Len(AllocOrder) THEN "setA" ELSE "alloc"
        /\ UNCHANGED failed
     \/ /\ \E code \in AllocFailCodes : GotoCleanup(code, "alloc")
        /\ \E v \in {hnd[h], Null} : hnd' = [hnd EXCEPT ![h] = v]
        /\ UNCHANGED <<live, k>>
  /\ UNCHANGED <<calls, N, nrhs, ldda, lddb, batchCount, h_X, liveStreams, q,
                 dev, host, info, dpc, drvRet, decompCalls, solveCalls, provLog,
                 errSink, factStatus, teardownRuns, uaf>>

\* ------------------------------------------------------- stream queues
Enqueue(qq, s, op) == [qq EXCEPT ![s] = Append(@, op)]

\* an asynchronous cuBLAS transfer call on stream s and the test that follows it
EnqueueOrFail(s, op, step, nextpc) ==
  \/ /\ q' = Enqueue(q, s, op)
     /\ resCode' = ERR_SUCCESS
     /\ pc' = nextpc
     /\ UNCHANGED failed
  \/ /\ \E code \in CudaFailCodes : GotoCleanup(code, step)
     /\ UNCHANGED q

\* a synchronization that reports success while work is still queued on s
SyncOrFail_nowait(s, nextpc) ==
  \/ /\ resCode' = ERR_SUCCESS
     /\ pc' = nextpc
     /\ UNCHANGED failed
  \/ \E code \in CudaFailCodes : GotoCleanup(code, "sync")

\* cudaStreamSynchronize(cuda_stream[s]) and the test that follows it: it
\* returns success only once everything enqueued on s has run
SyncOrFail(s, nextpc) ==
  \/ /\ q[s] = <<>>
     /\ resCode' = ERR_SUCCESS
     /\ pc' = nextpc
     /\ UNCHANGED failed
  \/ \E code \in CudaFailCodes : GotoCleanup(code, "sync")

HostOnly == <<calls, N, nrhs, ldda, lddb, batchCount, k, hnd, h_X, live,
              liveStreams, dev, host, info, dpc, drvRet, decompCalls,
              solveCalls, provLog, errSink, factStatus, teardownRuns, uaf>>

\* cublasSetMatrixAsync of A on stream 0
SetMatrixA ==
  /\ pc = "setA"
  /\ EnqueueOrFail(0, "h2dA", "transfer", "setB")
  /\ UNCHANGED HostOnly

\* cublasSetMatrixAsync of B on stream 1
SetMatrixB ==
  /\ pc = "setB"
  /\ EnqueueOrFail(1, "h2dB", "transfer", "setptr")
  /\ UNCHANGED HostOnly

\* magma_iset_pointer on stream 2, magma_sset_pointer on streams 0 and 1
SetPointers ==
  /\ pc = "setptr"
  /\ q' = Enqueue(Enqueue(Enqueue(q, 2, "ptrP"), 0, "ptrA"), 1, "ptrB")
  /\ pc' = "sync0"
  /\ UNCHANGED <<resCode, failed>>
  /\ UNCHANGED HostOnly

Sync0 == pc = "sync0" /\ SyncOrFail(0, "sync1") /\ UNCHANGED q /\ UNCHANGED HostOnly
\* the barrier with the synchronization of stream 1 left out
Sync1_skipped ==
  /\ pc = "sync1" /\ pc' = "sync2"
  /\ UNCHANGED <<resCode, failed, q>> /\ UNCHANGED HostOnly
Sync1 == pc = "sync1" /\ SyncOrFail(1, "sync2") /\ UNCHANGED q /\ UNCHANGED HostOnly
Sync2 == pc = "sync2" /\ SyncOrFail(2, "driver") /\ UNCHANGED q /\ UNCHANGED HostOnly

\* info = linearSolverSLU_batched(N, nrhs, ..., cuda_stream[0]): entry
CallDriver ==
  /\ pc = "driver" /\ dpc = "off"
  /\ dpc' = "validate"
  /\ UNCHANGED <<pc, calls, N, nrhs, ldda, lddb, batchCount, k, hnd, h_X, live,
                 liveStreams, q, dev, host, resCode, info, drvRet, decompCalls,
                 solveCalls, provLog, errSink, factStatus, failed, teardownRuns, uaf>>

\* the status retrieval enqueued on stream 1 instead of the compute stream
GetInfo_stream1 ==
  /\ pc = "getvec"
  /\ EnqueueOrFail(1, "d2hInfo", "transfer", "getmat")
  /\ UNCHANGED HostOnly

\* cublasGetVectorAsync of the status array on stream 0
GetInfo ==
  /\ pc = "getvec"
  /\ EnqueueOrFail(0, "d2hInfo", "transfer", "getmat")
  /\ UNCHANGED HostOnly

\* cublasGetMatrixAsync of the solution on stream 1
GetSolution ==
  /\ pc = "getmat"
  /\ EnqueueOrFail(1, "d2hX", "transfer", "sync0b")
  /\ UNCHANGED HostOnly

SyncStatus == pc = "sync0b" /\ SyncOrFail(0, "scan") /\ UNCHANGED q /\ UNCHANGED HostOnly

\* ------------------------------------------- linearSolverSLU_batched
\* the argument checks with the test of nrhs placed before the test of n
ValidateArgs_nrhsFirst(n, r, lda, ldb) ==
  IF r < 0 THEN -2
  ELSE IF n < 0 THEN -1
  ELSE IF lda < Max(1, n) THEN -4
  ELSE IF ldb < Max(1, n) THEN -6
  ELSE 0

\* the argument checks, in their if / else-if order
ValidateArgs(n, r, lda, ldb) ==
  IF n < 0 THEN -1
  ELSE IF r < 0 THEN -2
  ELSE IF lda < Max(1, n) THEN -4
  ELSE IF ldb < Max(1, n) THEN -6
  ELSE 0

\* a quick-return test that wants both dimensions to be zero
QuickReturn_both(n, r) == n = 0 /\ r = 0

\* the quick-return test
QuickReturn(n, r) == n = 0 \/ r = 0

\* `return code` of the driver: back in the caller, which for the
\* orchestrator is the assignment to info before the status retrieval
DriverReturn(code) ==
  /\ dpc' = "ret"
  /\ drvRet' = code
  /\ IF pc = "driver"
       THEN pc' = "getvec" /\ info' = code
       ELSE pc' = "ddone" /\ UNCHANGED info

DrvFrame == <<calls, N, nrhs, ldda, lddb, batchCount, k, hnd, h_X, live,
              liveStreams, dev, host, resCode, failed, teardownRuns, uaf>>

\* argument validation, error report and quick return
DrvValidate ==
  /\ dpc = "validate"
  /\ LET v == ValidateArgs(N, nrhs, ldda, lddb) IN
       IF v # 0
         THEN errSink' = Append(errSink, -v) /\ DriverReturn(v)
         ELSE /\ UNCHANGED errSink
              /\ IF QuickReturn(N, nrhs)
                   THEN DriverReturn(v)
                   ELSE dpc' = "decomp" /\ UNCHANGED <<pc, info, drvRet>>
  /\ UNCHANGED <<q, decompCalls, solveCalls, provLog, factStatus>>
  /\ UNCHANGED DrvFrame

\* a test of the factorization's code that lets a positive code through
AfterDecomp_negativeOnly(code) ==
  IF code < 0
    THEN DriverReturn(code)
    ELSE dpc' = "solve" /\ UNCHANGED <<pc, info, drvRet>>

\* what the driver does with the factorization's return code
AfterDecomp(code) ==
  IF code # 0
    THEN DriverReturn(code)
    ELSE dpc' = "solve" /\ UNCHANGED <<pc, info, drvRet>>

\* linearDecompSLU_batched on the queue, and the test of its return code.  The
\* provider returns a code and, when it launches, its kernel writes one status
\* per matrix; a return of 0 always comes with a launch.
DrvDecomp ==
  /\ dpc = "decomp"
  /\ decompCalls' = decompCalls + 1
  /\ \E code \in ProviderCodes, launched \in BOOLEAN :
       /\ code = 0 => launched
       /\ IF launched
            THEN /\ \E fs \in [1..batchCount -> StatusVals] : factStatus' = fs
                 /\ q' = Enqueue(q, 0, "getrf")
            ELSE UNCHANGED <<factStatus, q>>
       /\ provLog' = Append(provLog, <<"decomp", code>>)
       /\ AfterDecomp(code)
  /\ UNCHANGED <<solveCalls, errSink>>
  /\ UNCHANGED DrvFrame

\* linearSolverFactorizedSLU_batched on the queue; its code is the driver's
DrvSolve ==
  /\ dpc = "solve"
  /\ solveCalls' = solveCalls + 1
  /\ \E code \in ProviderCodes :
       /\ q' = IF code = 0 THEN Enqueue(q, 0, "getrs") ELSE q
       /\ provLog' = Append(provLog, <<"solve", code>>)
       /\ DriverReturn(code)
  /\ UNCHANGED <<decompCalls, errSink, factStatus>>
  /\ UNCHANGED DrvFrame

\* a caller other than the orchestrator invoking the driver on its own buffers
DirectCall ==
  \E n \in -1..MaxN, r \in -1..1, lda \in 0..MaxN, ldb \in 0..MaxN,
     bc \in 0..MaxBatch :
    /\ NewCall
    /\ N' = n /\ nrhs' = r /\ ldda' = lda /\ lddb' = ldb /\ batchCount' = bc
    /\ dev' = [A |-> "A", B |-> "B", ptrs |-> {"A", "B", "P"},
               info |-> <<>>, infoDef |-> FALSE]
    /\ dpc' = "validate"
    /\ UNCHANGED <<hnd, h_X, host>>
    /\ pc' = "direct"

\* ------------------------------------------ status scan and teardown
\* a scan that keeps going and ends on the last non-zero entry
LastNonZero(v) ==
  IF \E i \in 1..Len(v) : v[i] # 0
    THEN CHOOSE i \in 1..Len(v) : v[i] # 0 /\ \A j \in (i + 1)..Len(v) : v[j] = 0
    ELSE 0

\* index of the first non-zero entry of a status vector, 0 when there is none
FirstNonZero(v) ==
  IF \E i \in 1..Len(v) : v[i] # 0
    THEN CHOOSE i \in 1..Len(v) : v[i] # 0 /\ \A j \in 1..(i - 1) : v[j] = 0
    ELSE 0

\* the result of the loop over h_info followed by the test of info
ScanResult(v, drv) ==
  IF FirstNonZero(v) # 0 THEN v[FirstNonZero(v)]
  ELSE IF drv # 0 THEN drv
  ELSE 0

\* the scan of the host status mirror and the test of the driver's code
Scan ==
  /\ pc = "scan"
  /\ \E v \in [1..batchCount -> StatusVals] :
       /\ host.infoDef => v = host.info
       /\ LET r == ScanResult(v, info) IN
            IF r # 0
              THEN resCode' = r /\ pc' = "cleanup"
              ELSE pc' = "sync1b" /\ UNCHANGED resCode
  /\ UNCHANGED <<q, failed>>
  /\ UNCHANGED HostOnly

\* the last cudaStreamSynchronize(cuda_stream[1]); both outcomes reach cleanup
SyncFinal ==
  /\ pc = "sync1b"
  /\ SyncOrFail(1, "cleanup")
  /\ UNCHANGED q
  /\ UNCHANGED HostOnly

\* the pointer variables the cleanup block frees
Freed == {"h_info", "d_A", "d_B", "dipiv", "dinfo_array",
          "dA_array", "dB_array", "dipiv_array"}

\* what the assignment after the frees leaves in the parameter h_X
InvalidateOutput(code, p) == IF code # 0 THEN "NULL" ELSE p

\* the cleanup block and the return.  Freeing a pointer that was never
\* initialised is undefined: the call either survives it or aborts.
Teardown ==
  /\ pc = "cleanup"
  /\ teardownRuns' = teardownRuns + 1
  /\ \E abort \in BOOLEAN :
       /\ abort => \E h \in Freed : hnd[h] = Uninit
       /\ IF abort
            THEN pc' = "crashed" /\ UNCHANGED <<live, h_X>>
            ELSE /\ live' = live \ {hnd[h] : h \in Freed}
                 /\ h_X' = InvalidateOutput(resCode, h_X)
                 /\ pc' = "done"
  /\ UNCHANGED <<calls, N, nrhs, ldda, lddb, batchCount, k, hnd, liveStreams, q,
                 dev, host, resCode, info, dpc, drvRet, decompCalls, solveCalls, provLog,
                 errSink, factStatus, failed, uaf>>

\* ------------------------------------------------------------ the device
\* the pointer variables whose buffers a stream operation reads or writes
Touches(op) ==
  CASE op = "h2dA" -> {"d_A"}
    [] op = "h2dB" -> {"d_B"}
    [] op = "ptrA" -> {"dA_array"}
    [] op = "ptrB" -> {"dB_array"}
    [] op = "ptrP" -> {"dipiv_array"}
    [] op = "getrf" -> {"dA_array", "dipiv_array", "d_A", "dipiv", "dinfo_array"}
    [] op = "getrs" -> {"dA_array", "dipiv_array", "dB_array", "d_A", "dipiv", "d_B"}
    [] op = "d2hInfo" -> {"dinfo_array", "h_info"}
    [] OTHER -> {"d_B", "X"}

AllZero(v) == \A i \in 1..Len(v) : v[i] = 0

\* the effect of a stream operation on device and host memory
Effect(op, garbage) ==
  CASE op = "h2dA" -> dev' = [dev EXCEPT !.A = "A"] /\ UNCHANGED host
    [] op = "h2dB" -> dev' = [dev EXCEPT !.B = "B"] /\ UNCHANGED host
    [] op = "ptrA" -> dev' = [dev EXCEPT !.ptrs = @ \cup {"A"}] /\ UNCHANGED host
    [] op = "ptrB" -> dev' = [dev EXCEPT !.ptrs = @ \cup {"B"}] /\ UNCHANGED host
    [] op = "ptrP" -> dev' = [dev EXCEPT !.ptrs = @ \cup {"P"}] /\ UNCHANGED host
    [] op = "getrf" ->
         /\ dev' = [dev EXCEPT !.info = factStatus, !.infoDef = TRUE,
                               !.A = IF dev.A = "A" /\ {"A", "P"} \subseteq dev.ptrs
                                       THEN "LU" ELSE "junk"]
         /\ UNCHANGED host
    [] op = "getrs" ->
         /\ dev' = [dev EXCEPT !.B = IF dev.A = "LU" /\ dev.B = "B" /\ "B" \in dev.ptrs
                                          /\ dev.infoDef /\ AllZero(dev.info)
                                       THEN "X" ELSE "junk"]
         /\ UNCHANGED host
    [] op = "d2hInfo" ->
         /\ host' = [host EXCEPT !.info = IF dev.infoDef THEN dev.info ELSE garbage,
                                 !.infoDef = TRUE]
         /\ UNCHANGED dev
    [] OTHER -> host' = [host EXCEPT !.X = dev.B] /\ UNCHANGED dev

\* the device runs the operation at the head of stream s
Exec ==
  \E s \in 0..(numStreams - 1) :
    /\ q[s] # <<>>
    /\ pc # "crashed"
    /\ q' = [q EXCEPT ![s] = Tail(@)]
    /\ LET op == Head(q[s]) IN
         IF pc \in {"direct", "ddone"} \/ \A h \in Touches(op) : hnd[h] \in live
           THEN /\ \E g \in [1..batchCount -> StatusVals] :
                     /\ (op # "d2hInfo" \/ dev.infoDef) => g = [i \in 1..batchCount |-> 0]
                     /\ Effect(op, g)
                /\ UNCHANGED uaf
           ELSE uaf' = TRUE /\ UNCHANGED <<dev, host>>
    /\ UNCHANGED <<pc, calls, N, nrhs, ldda, lddb, batchCount, k, hnd, h_X, live,
                   liveStreams, resCode, info, dpc, drvRet, decompCalls,
                   solveCalls, provLog, errSink, factStatus, failed, teardownRuns>>

\* the activation ends: the call's locals, its queues' leftovers and the
\* results the caller has looked at are gone; what is still allocated stays
Forget ==
  /\ pc \in {"done", "ddone"}
  /\ pc' = "idle"
  /\ k' = 1 /\ q' = EmptyQueues
  /\ N' = 0 /\ nrhs' = 0 /\ ldda' = 0 /\ lddb' = 0 /\ batchCount' = 0
  /\ hnd' = DeclaredHandles(Null) /\ h_X' = "caller"
  /\ dev' = FreshDev /\ host' = FreshHost
  /\ resCode' = ERR_SUCCESS /\ info' = 0 /\ dpc' = "off" /\ drvRet' = 0
  /\ decompCalls' = 0 /\ solveCalls' = 0 /\ provLog' = <<>>
  /\ errSink' = <<>> /\ factStatus' = <<>>
  /\ failed' = {} /\ teardownRuns' = 0 /\ uaf' = FALSE
  /\ UNCHANGED <<calls, live, liveStreams>>

Next ==
  \/ Call \/ CreateStreams \/ Alloc
  \/ SetMatrixA \/ SetMatrixB \/ SetPointers
  \/ Sync0 \/ Sync1 \/ Sync2
  \/ CallDriver \/ DrvValidate \/ DrvDecomp \/ DrvSolve
  \/ GetInfo \/ GetSolution \/ SyncStatus \/ Scan \/ SyncFinal
  \/ Teardown \/ Exec \/ DirectCall \/ Forget

\* ------------------------------------------------------------ properties
\* buffers of the current call that are still allocated
LiveOfCall == {b \in live : b[1] = calls}

\* the orchestrator is between its entry and its cleanup block
InFlight == pc \in {"streams", "alloc", "setA", "setB", "setptr", "sync0", "sync1",
                    "sync2", "driver", "getvec", "getmat", "sync0b", "scan",
                    "sync1b", "cleanup"}

\* C1: linearSolverSLU_batched checks its arguments in a fixed precedence
\* (n < 0 gives -1, else nrhs < 0 gives -2, else ldda < max(1,n) gives -4, else
\* lddb < max(1,n) gives -6); in each case it reports the error and returns
\* that code without invoking the factorization or the solve, for every
\* batchCount.
C1_ValidationPrecedence ==
  LET rejects(cond, code) ==
        cond => /\ decompCalls = 0 /\ solveCalls = 0
                /\ dpc = "ret" => drvRet = code /\ errSink = << -code >>
  IN /\ rejects(N < 0, -1)
     /\ rejects(N >= 0 /\ nrhs < 0, -2)
     /\ rejects(N >= 0 /\ nrhs >= 0 /\ ldda < Max(1, N), -4)
     /\ rejects(N >= 0 /\ nrhs >= 0 /\ ldda >= Max(1, N) /\ lddb < Max(1, N), -6)

C1_Witness ==
  /\ pc = "ddone" /\ dpc = "ret"
  /\ N >= 1 /\ nrhs >= 0 /\ ldda >= N /\ lddb < N
  /\ batchCount = MaxBatch
  /\ drvRet = -6 /\ errSink = <<6>>

\* C2: whenever gpuLinearSolverBatched returns a non-zero status, the output
\* pointer the caller sees is null: no buffer of the failed call is reachable.
C2_OutputInvalidated ==
  (pc = "done" /\ resCode # 0) => hnd["X"] = Null

\* C3: every execution of gpuLinearSolverBatched runs the cleanup block exactly
\* once, and returns only after it has run, whichever step failed or none.
C3_TeardownOnce ==
  /\ teardownRuns <= 1
  /\ InFlight => teardownRuns = 0
  /\ pc = "done" => teardownRuns = 1

C3_Witness ==
  /\ pc = "done" /\ teardownRuns = 1
  /\ "transfer" \in failed /\ resCode # 0
  /\ q[0] # <<>>

\* C4: when gpuLinearSolverBatched returns, every buffer the call allocated has
\* been freed, except the host solution buffer after a return of 0; after a
\* failing return nothing the call allocated is still allocated.
C4_NoBufferOutlivesCall ==
  pc = "done" =>
    LiveOfCall \subseteq (IF resCode = 0 THEN {<<calls, "X">>} ELSE {})

\* C5: the solve step is invoked only when the factorization succeeded for
\* every matrix: a non-zero per-matrix status means no solve in that call.
C5_NoSolveAfterFailedFactorization ==
  solveCalls > 0 => AllZero(factStatus)

\* C6: gpuLinearSolverBatched with n = 0 returns status 0 for every batchCount
\* (no step of the environment failing).
C6_ZeroOrderIsNoOp ==
  (pc = "done" /\ N = 0 /\ failed = {}) => resCode = 0

\* C7: with valid arguments and n = 0 or nrhs = 0, linearSolverSLU_batched
\* returns 0 at once: no factorization, no solve, no error report, and the
\* status array is not written, for every batchCount.
C7_QuickReturn ==
  (/\ N >= 0 /\ nrhs >= 0 /\ ldda >= Max(1, N) /\ lddb >= Max(1, N)
   /\ N = 0 \/ nrhs = 0)
    => /\ decompCalls = 0 /\ solveCalls = 0
       /\ ~dev.infoDef /\ q[0] = <<>>
       /\ dpc \in {"validate", "ret"}
       /\ dpc = "ret" => drvRet = 0 /\ errSink = <<>>

C7_Witness ==
  /\ pc = "ddone" /\ dpc = "ret" /\ drvRet = 0
  /\ N >= 1 /\ nrhs = 0 /\ ldda >= N /\ lddb >= N
  /\ batchCount = MaxBatch

\* C8: when no allocation, transfer enqueue or synchronization failed and the
\* host status mirror holds a non-zero entry, the status returned is the entry
\* of smallest index that is non-zero.
C8_FirstFailureWins ==
  (/\ pc = "done" /\ failed \cap {"alloc", "transfer", "sync"} = {}
   /\ \E i \in 1..Len(host.info) : host.info[i] # 0)
    => \E i \in 1..Len(host.info) :
         /\ host.info[i] # 0
         /\ \A j \in 1..(i - 1) : host.info[j] = 0
         /\ resCode = host.info[i]

C8_Witness ==
  /\ pc = "done" /\ failed = {}
  /\ Len(host.info) >= 2
  /\ host.info[1] = 0 /\ host.info[2] = 2
  /\ resCode = 2 /\ info # 0

\* C9: negative dominates: when the driver returned a parameter-validation
\* code, gpuLinearSolverBatched returns that code, whatever the status mirror
\* holds (no step of the environment failing).
C9_NegativeDominates ==
  (/\ pc = "done" /\ failed = {}
   /\ dpc = "ret" /\ drvRet < 0 /\ errSink # <<>>)
    => resCode = drvRet

\* C10: all-or-nothing: gpuLinearSolverBatched returns 0 only if every fallible
\* step reported success (stream creation included), the driver returned 0 and
\* every entry of the status mirror is 0.
C10_AllOrNothing ==
  (pc = "done" /\ resCode = 0)
    => /\ failed = {}
       /\ dpc = "ret" /\ drvRet = 0
       /\ host.infoDef /\ AllZero(host.info)

\* C19: on the main path of linearSolverSLU_batched (valid arguments, n > 0,
\* nrhs > 0) the factorization is invoked exactly once and first; a non-zero
\* code is returned as it is and the solve is not invoked; after a code of 0
\* the solve is invoked exactly once and its code is the driver's.
C19_FactorizeThenSolve ==
  (/\ dpc = "ret"
   /\ N > 0 /\ nrhs > 0 /\ ldda >= Max(1, N) /\ lddb >= Max(1, N))
    => /\ decompCalls = 1
       /\ Len(provLog) >= 1 /\ provLog[1][1] = "decomp"
       /\ IF provLog[1][2] # 0
            THEN /\ Len(provLog) = 1 /\ solveCalls = 0
                 /\ drvRet = provLog[1][2]
            ELSE /\ Len(provLog) = 2 /\ solveCalls = 1
                 /\ provLog[2][1] = "solve"
                 /\ drvRet = provLog[2][2]

C19_Witness ==
  /\ dpc = "ret" /\ pc = "getvec"
  /\ N > 0 /\ batchCount = MaxBatch
  /\ provLog = << <<"decomp", 0>>, <<"solve", 1>> >>
  /\ drvRet = 1

\* operations enqueued before the barrier: the two transfers and the three
\* pointer-array constructions
PreOps == {"h2dA", "h2dB", "ptrA", "ptrB", "ptrP"}
Pending(ops) == \E s \in DOMAIN q : \E i \in 1..Len(q[s]) : q[s][i] \in ops

\* C11: the device A and B buffers and the three pointer arrays the compute
\* step sees are the same whatever the relative order in which the A transfer
\* (stream 0) and the B transfer (stream 1) ran: at the call of the driver they
\* hold A, B and the three built arrays, and the kernels never find them
\* incomplete.
C11_TransferOrderIrrelevant ==
  /\ (pc = "driver" /\ dpc \in {"off", "validate", "decomp"} /\ decompCalls = 0)
       => dev = [A |-> "A", B |-> "B", ptrs |-> {"A", "B", "P"},
                 info |-> <<>>, infoDef |-> FALSE]
  /\ dev.A # "junk"
  /\ dev.B = "junk" => dev.infoDef /\ ~AllZero(dev.info)

C11_Witness ==
  /\ pc = "driver" /\ dpc = "decomp"
  /\ N >= 1 /\ batchCount = MaxBatch
  /\ dev.A = "A" /\ dev.B = "B" /\ dev.ptrs = {"A", "B", "P"}

\* C12: when gpuLinearSolverBatched invokes the driver, everything enqueued
\* before on streams 0, 1 and 2 has run (both transfers and the three pointer
\* arrays), and no synchronization has failed; from then on none of these
\* operations is ever pending.
C12_BarrierBeforeCompute ==
  /\ (pc = "driver" /\ dpc = "off") => q = EmptyQueues
  /\ pc = "driver" => "sync" \notin failed /\ resCode = ERR_SUCCESS
  /\ pc \in {"driver", "getvec", "getmat", "sync0b", "scan", "sync1b"}
       => ~Pending(PreOps)
  /\ (dpc # "off" /\ pc \notin {"direct", "ddone"}) => ~Pending(PreOps)

C12_Witness ==
  /\ pc = "driver" /\ dpc = "off"
  /\ N >= 1 /\ batchCount = MaxBatch
  /\ q = EmptyQueues /\ dev.ptrs = {"A", "B", "P"}

\* C14: the scan of the host status mirror starts only after the status
\* retrieval has run, and the retrieval runs only after the compute step: at
\* the scan stream 0 is drained, the mirror has been delivered, and it holds
\* what the factorization wrote.
C14_ScanAfterRetrieval ==
  /\ pc = "scan" =>
       /\ q[0] = <<>>
       /\ host.infoDef /\ Len(host.info) = batchCount
       /\ dev.infoDef => host.info = dev.info
       /\ decompCalls > 0 /\ provLog[1][2] = 0 => dev.infoDef /\ host.info = factStatus
  /\ (host.infoDef /\ dev.infoDef) => host.info = dev.info

C14_Witness ==
  /\ pc = "scan" /\ batchCount = MaxBatch
  /\ dev.infoDef /\ host.info = factStatus
  /\ factStatus[1] = 0 /\ factStatus[2] = 1

\* C13: the retrieval of the solution (stream 1) never runs before the compute
\* step (stream 0) has completed, so on a return of 0 (of a non-empty batch)
\* the host output holds the solved contents of the device buffer.
C13_SolutionAfterCompute ==
  (pc = "done" /\ resCode = 0 /\ N >= 1 /\ batchCount >= 1) => host.X = "X"

\* C15: on every exit path, when the cleanup block has freed the buffers and
\* the call returns, nothing the call enqueued on its streams is still pending.
C15_NothingPendingAtReturn ==
  pc = "done" => q = EmptyQueues

\* C16: when an allocation fails, every pointer that was never acquired is
\* null when it reaches the cleanup block, so no free is applied to a pointer
\* the call did not allocate.
C16_UnacquiredHandlesAreNull ==
  pc = "cleanup" => \A h \in Handles : hnd[h] \notin live => hnd[h] = Null

\* a step of the orchestrator has reported a failure, the driver's non-zero
\* return included
FailureSeen ==
  \/ failed \cap {"alloc", "transfer", "sync"} # {}
  \/ dpc = "ret" /\ drvRet # 0

\* C17: once an allocation, a transfer enqueue, a synchronization or the
\* driver has reported a failure, the next thing gpuLinearSolverBatched does is
\* the cleanup block: no further transfer, retrieval, synchronization or
\* compute step is issued.
C17_FailureGoesToCleanup ==
  (InFlight /\ FailureSeen) => pc = "cleanup"

\* C18: a call of gpuLinearSolverBatched that ends with a parameter-validation
\* code of the driver attempted no device work: no device buffer was allocated
\* (the third allocation was never reached) and nothing was enqueued.
C18_ValidationBeforeDeviceWork ==
  (pc = "done" /\ errSink # <<>> /\ drvRet < 0 /\ resCode = drvRet)
    => k <= 3 /\ dev = FreshDev

\* C20: the three streams a call of gpuLinearSolverBatched creates are
\* destroyed before it returns, so no stream is live between calls.
C20_StreamsDestroyed ==
  pc \in {"done", "idle"} => liveStreams = 0

Spec == Init /\ [][Next]_vars
====
